---- MODULE Spec2Model ----
(***************************************************************************)
(* Model of the video stabiliser (src/stabiliser.py, src/main.py,          *)
(* src/utils.py): the two-pass pipeline Stabiliser.stabilise, the          *)
(* finaliser Stabiliser.__del__ and the smoothing filter                   *)
(* Stabiliser.moving_average / Stabiliser.smooth.                          *)
(*                                                                         *)
(* Conventions.                                                            *)
(*  - Python indices are 0-based, TLA+ sequences 1-based: row i of a numpy *)
(*    array is element i+1 of the sequence that models it.  The loop       *)
(*    counter i, frame indices and the sets filled / degenerate keep the   *)
(*    program's 0-based numbers.                                           *)
(*  - Floating-point values are modelled by integers and arithmetic is     *)
(*    exact.  The boxcar kernel np.ones(W)/W is kept as W weights of 1     *)
(*    over the common denominator W = window_size: every smoothed quantity *)
(*    (moving_average's result, smoothed_trajectory, difference,           *)
(*    transforms_smooth) is stored as its numerator over window_size.      *)
(*  - A solver matrix m is modelled by the triple the code extracts from   *)
(*    it: <<m[0,2], m[1,2], arctan2(m[1,0], m[0,0])>>.                     *)
(***************************************************************************)
EXTENDS Integers, Sequences, FiniteSets, TLC

VARIABLES
    mode,                    \* self.mode
    features,                \* self.features
    radius,                  \* self.radius
    n_frames,                \* CAP_PROP_FRAME_COUNT reported by the source
    avail,                   \* frames the source can actually deliver
    w,                       \* CAP_PROP_FRAME_WIDTH
    pc,                      \* position of the run
    exc,                     \* exception that ended stabilise, or "none"
    delExc,                  \* exception that ended __del__, or "none"
    cap,                     \* self.cap: "none", "open", "released"
    out,                     \* self.out: "none", "open", "released"
    pos,                     \* index of the next frame cap.read() delivers
    i,                       \* loop counter of the running pass
    prev,                    \* index of the frame held in prev_gray
    transforms,              \* the transformation store
    trajectory,
    smoothed_trajectory,
    transforms_smooth,
    written,                 \* frames handed to self.out.write, in order
    feature_detection_times, \* length of self.feature_detection_times
    reads,                   \* successful cap.read() calls so far
    reads2,                  \* successful cap.read() calls of pass 2
    filled,                  \* rows of transforms assigned by line 208
    pairs,                   \* frame pairs <<prev, curr>> estimated so far
    degenerate,              \* rows whose pair had too few correspondences
    failed1,                 \* a read failed in pass 1
    failed2,                 \* a read failed in pass 2
    curve,                   \* argument of a moving_average call
    ma_radius,               \* self.radius of that call
    ma_out,                  \* its result (numerators over window_size)
    ma_pc                    \* "idle", "returned", "raised"

cfgVars == <<mode, features, radius, n_frames, avail, w>>
runVars == <<pc, exc, delExc, cap, out, pos, i, prev, transforms, trajectory,
             smoothed_trajectory, transforms_smooth, written,
             feature_detection_times>>
histVars == <<reads, reads2, filled, pairs, degenerate, failed1, failed2>>
maVars == <<curve, ma_radius, ma_out, ma_pc>>
vars == <<cfgVars, runVars, histVars, maVars>>

----------------------------------------------------------------------------
(* Bounds of the model. *)

MaxFrames == 4
MaxRadius == 2
MaxPts == 4
MaxLen == 3
MaxVal == 2

----------------------------------------------------------------------------
(* Configuration: utils.py and main.py. *)

\* The members of utils.Features, and KAZE, which get_features compares with.
Features ==
    {"good_features", "orb", "sift", "surf", "akaze", "kaze", "fast", "mser",
     "brisk"}

\* The two members of utils.Modes that stabilise branches on.
Modes == {"optical_flow", "homography"}

\* Fewest point pairs for which cv2.estimateRigidTransform returns a matrix.
MinRigidPts == 3

\* Fewest point pairs for which cv2.findHomography returns a matrix.
MinHomographyPts == 4

\* Width above which the side-by-side frame is resized.
MaxDisplayWidth == 1920

Widths == {MaxDisplayWidth \div 2, MaxDisplayWidth \div 2 + 1}

\* Motions a solver can report: <<dx, dy, da>>.
Motions == {<<0, 0, 0>>, <<1, 0, 0>>, <<2, 1, 0>>, <<0, -1, 1>>}

Zero3 == <<0, 0, 0>>

----------------------------------------------------------------------------
(* numpy helpers. *)

Max(a, b) == IF a >= b THEN a ELSE b
Min(a, b) == IF a <= b THEN a ELSE b

RECURSIVE SumSeq(_)
SumSeq(s) == IF Len(s) = 0 THEN 0 ELSE s[1] + SumSeq(Tail(s))

VAdd(a, b) == [k \in 1..3 |-> a[k] + b[k]]
VSub(a, b) == [k \in 1..3 |-> a[k] - b[k]]
VScale(c, a) == [k \in 1..3 |-> c * a[k]]

\* np.zeros((rows, 3))
zeros(rows) == [r \in 1..rows |-> Zero3]

\* array[:, c]
Column(a, c) == [r \in 1..Len(a) |-> a[r][c]]

\* A running sum that leaves out the row itself.
cumsum_shifted(a) ==
    [r \in 1..Len(a) |-> [c \in 1..3 |-> SumSeq(SubSeq(Column(a, c), 1, r - 1))]]

\* np.cumsum(a, axis=0)
cumsum(a) ==
    [r \in 1..Len(a) |-> [c \in 1..3 |-> SumSeq(SubSeq(Column(a, c), 1, r))]]

\* Python's s[start:stop] for a sequence s; a negative index counts from the
\* end, and -0 is 0.
PyIndex(x, len) == IF x < 0 THEN Max(x + len, 0) ELSE Min(x, len)
PySlice(s, start, stop) ==
    SubSeq(s, PyIndex(start, Len(s)) + 1, PyIndex(stop, Len(s)))

\* Padding with zeros instead of the edge values.
pad_zero(a, before, after) ==
    [k \in 1..(Len(a) + before + after) |->
        IF k - before \in 1..Len(a) THEN a[k - before] ELSE 0]

\* np.lib.pad(a, (before, after), 'edge'), for a non-empty a
pad_edge(a, before, after) ==
    [k \in 1..(Len(a) + before + after) |->
        a[Max(1, Min(Len(a), k - before))]]

\* Entry k (0-based) of the full discrete convolution of a and v.
ConvFull(a, v, k) ==
    SumSeq([j \in 1..Len(a) |->
        IF k - (j - 1) \in 0..(Len(v) - 1) THEN a[j] * v[k - (j - 1) + 1]
        ELSE 0])

\* np.convolve(a, v, mode='same') for non-empty a and v: the centred
\* max(len) entries of the full convolution.
convolve_same(a, v) ==
    LET n1 == Max(Len(a), Len(v))
        n2 == Min(Len(a), Len(v))
        off == (n2 - 1) - (n2 \div 2)
    IN  [j \in 1..n1 |-> ConvFull(a, v, (j - 1) + off)]

----------------------------------------------------------------------------
(* Stabiliser.moving_average and Stabiliser.smooth. *)

window_size(r) == 2 * r + 1

\* Numerators of f = np.ones(window_size) / window_size.
kernel(r) == [k \in 1..window_size(r) |-> 1]

\* np.lib.pad refuses to extend an empty axis and np.convolve refuses an
\* empty operand: both raise ValueError.
moving_average_raises(c, r) == Len(c) = 0

moving_average(c, r) ==
    LET curve_pad == pad_edge(c, r, r)
        curve_smoothed == convolve_same(curve_pad, kernel(r))
    IN  PySlice(curve_smoothed, r, -r)

\* smoothed_trajectory[:, c] = <a sequence of length len> raises ValueError
\* unless len is the number of rows or 1 (numpy broadcasting).
smooth_raises(t, r) ==
    \E c \in 1..3 :
        IF moving_average_raises(Column(t, c), r) THEN TRUE
        ELSE Len(moving_average(Column(t, c), r)) \notin {Len(t), 1}

smooth(t, r) ==
    [row \in 1..Len(t) |-> [c \in 1..3 |->
        LET ma == moving_average(Column(t, c), r)
        IN  IF Len(ma) = 1 THEN ma[1] ELSE ma[row]]]

\* difference = smoothed_trajectory - trajectory, over window_size
difference(sm, t, r) ==
    [row \in 1..Len(t) |-> VSub(sm[row], VScale(window_size(r), t[row]))]

\* The correction offset alone, without the raw transforms.
offset_only(tr, diff, r) == diff

\* transforms_smooth = transforms + difference, over window_size
corrected(tr, diff, r) ==
    [row \in 1..Len(tr) |-> VAdd(VScale(window_size(r), tr[row]), diff[row])]

----------------------------------------------------------------------------
(* Stabiliser.__init__ and the video the run is given. *)

Init ==
    /\ mode \in Modes
    /\ features \in Features
    /\ radius \in 0..MaxRadius
    /\ n_frames \in 0..MaxFrames
    /\ avail \in 0..MaxFrames
    /\ w \in Widths
    /\ pc = "Constructed"
    /\ exc = "none"
    /\ delExc = "none"
    /\ cap = "none"
    /\ out = "none"
    /\ pos = 0
    /\ i = 0
    /\ prev = -1
    /\ transforms = <<>>
    /\ trajectory = <<>>
    /\ smoothed_trajectory = <<>>
    /\ transforms_smooth = <<>>
    /\ written = <<>>
    /\ feature_detection_times = 0
    /\ reads = 0
    /\ reads2 = 0
    /\ filled = {}
    /\ pairs = <<>>
    /\ degenerate = {}
    /\ failed1 = FALSE
    /\ failed2 = FALSE
    /\ curve = <<>>
    /\ ma_radius = 0
    /\ ma_out = <<>>
    /\ ma_pc = "idle"

\* stabilise raises e: the run leaves stabilise with everything else as it is.
Raise(e) ==
    /\ pc' = "Raised"
    /\ exc' = e

----------------------------------------------------------------------------
(* Stabiliser.stabilise. *)

\* self.cap = cv2.VideoCapture(input_path) and the reads of its properties.
OpenCapture ==
    /\ pc = "Constructed"
    /\ cap' = "open"
    /\ pos' = 0
    /\ pc' = "OpenWriter"
    /\ UNCHANGED <<cfgVars, exc, delExc, out, i, prev, transforms, trajectory,
                   smoothed_trajectory, transforms_smooth, written,
                   feature_detection_times, histVars, maVars>>

\* self.out = cv2.VideoWriter(output_path, fourcc, fps, (2 * w, h))
OpenWriter ==
    /\ pc = "OpenWriter"
    /\ out' = "open"
    /\ pc' = "ReadFirst"
    /\ UNCHANGED <<cfgVars, exc, delExc, cap, pos, i, prev, transforms,
                   trajectory, smoothed_trajectory, transforms_smooth, written,
                   feature_detection_times, histVars, maVars>>

\* _, prev = self.cap.read(); prev_gray = cv2.cvtColor(prev, ...): the result
\* of the read is not looked at, and cvtColor raises on the None a failed
\* read returns.
ReadFirst ==
    /\ pc = "ReadFirst"
    /\ \/ /\ pos >= avail
          /\ Raise("cv2.error")
          /\ UNCHANGED <<pos, prev, reads>>
       \/ /\ pos < avail
          /\ prev' = pos
          /\ pos' = pos + 1
          /\ reads' = reads + 1
          /\ pc' = "Allocate"
          /\ exc' = exc
    /\ UNCHANGED <<cfgVars, delExc, cap, out, i, transforms, trajectory,
                   smoothed_trajectory, transforms_smooth, written,
                   feature_detection_times, reads2, filled, pairs, degenerate,
                   failed1, failed2, maVars>>

\* transforms = np.zeros((n_frames - 1, 3), np.float32): a negative dimension
\* raises ValueError.
Allocate ==
    /\ pc = "Allocate"
    /\ \/ /\ n_frames - 1 < 0
          /\ Raise("ValueError")
          /\ UNCHANGED <<transforms, i>>
       \/ /\ n_frames - 1 >= 0
          /\ transforms' = zeros(n_frames - 1)
          /\ i' = 0
          /\ pc' = "Pass1"
          /\ exc' = exc
    /\ UNCHANGED <<cfgVars, delExc, cap, out, pos, prev, trajectory,
                   smoothed_trajectory, transforms_smooth, written,
                   feature_detection_times, histVars, maVars>>

\* What the solver of the mode returns for k valid point pairs: None below
\* the solver's minimum, else a matrix.
SolverResults(k) ==
    IF mode = "homography"
    THEN IF k < MinHomographyPts THEN {"None"} ELSE Motions
    ELSE IF k < MinRigidPts THEN {"None"} ELSE Motions

\* One iteration of the first loop, for i in range(n_frames - 2).
Pass1Iter ==
    /\ pc = "Pass1"
    /\ i < n_frames - 2
    /\ \/ \* success, curr = self.cap.read(); if not success: break
          /\ pos >= avail
          /\ failed1' = TRUE
          /\ pc' = "Accumulate"
          /\ UNCHANGED <<exc, pos, i, prev, transforms, feature_detection_times,
                         reads, filled, pairs, degenerate>>
       \/ \* get_features: raise NotImplementedError
          /\ pos < avail
          /\ mode = "optical_flow"
          /\ features = "surf"
          /\ Raise("NotImplementedError")
          /\ pos' = pos + 1
          /\ reads' = reads + 1
          /\ UNCHANGED <<i, prev, transforms, feature_detection_times, filled,
                         pairs, degenerate, failed1>>
       \/ /\ pos < avail
          /\ ~(mode = "optical_flow" /\ features = "surf")
          /\ pos' = pos + 1
          /\ reads' = reads + 1
          /\ feature_detection_times' =
                IF mode = "optical_flow" THEN feature_detection_times + 1
                ELSE feature_detection_times
          /\ \E k \in 0..MaxPts : \E m \in SolverResults(k) :
                IF m = "None"
                THEN \* dx = m[0, 2] on None
                     /\ Raise("TypeError")
                     /\ degenerate' = degenerate \cup {i}
                     /\ UNCHANGED <<i, prev, transforms, filled, pairs>>
                ELSE \* transforms[i] = [dx, dy, da]; prev_gray = curr_gray
                     /\ transforms' = [transforms EXCEPT ![i + 1] = m]
                     /\ filled' = filled \cup {i}
                     /\ pairs' = Append(pairs, <<prev, pos>>)
                     /\ prev' = pos
                     /\ i' = i + 1
                     /\ UNCHANGED <<pc, exc, degenerate>>
          /\ UNCHANGED failed1
    /\ UNCHANGED <<cfgVars, delExc, cap, out, trajectory, smoothed_trajectory,
                   transforms_smooth, written, reads2, failed2, maVars>>

\* range(n_frames - 2) is exhausted.
Pass1End ==
    /\ pc = "Pass1"
    /\ i >= n_frames - 2
    /\ pc' = "Accumulate"
    /\ UNCHANGED <<cfgVars, exc, delExc, cap, out, pos, i, prev, transforms,
                   trajectory, smoothed_trajectory, transforms_smooth, written,
                   feature_detection_times, histVars, maVars>>

\* trajectory = np.cumsum(transforms, axis=0)
Accumulate ==
    /\ pc = "Accumulate"
    /\ trajectory' = cumsum(transforms)
    /\ pc' = "Smooth"
    /\ UNCHANGED <<cfgVars, exc, delExc, cap, out, pos, i, prev, transforms,
                   smoothed_trajectory, transforms_smooth, written,
                   feature_detection_times, histVars, maVars>>

\* smoothed_trajectory = self.smooth(trajectory)
Smooth ==
    /\ pc = "Smooth"
    /\ \/ /\ smooth_raises(trajectory, radius)
          /\ Raise("ValueError")
          /\ UNCHANGED smoothed_trajectory
       \/ /\ ~smooth_raises(trajectory, radius)
          /\ smoothed_trajectory' = smooth(trajectory, radius)
          /\ pc' = "Correct"
          /\ exc' = exc
    /\ UNCHANGED <<cfgVars, delExc, cap, out, pos, i, prev, transforms,
                   trajectory, transforms_smooth, written,
                   feature_detection_times, histVars, maVars>>

\* difference, transforms_smooth, and self.cap.set(CAP_PROP_POS_FRAMES, 0)
Correct ==
    /\ pc = "Correct"
    /\ transforms_smooth' =
          corrected(transforms,
                    difference(smoothed_trajectory, trajectory, radius), radius)
    /\ pos' = 0
    /\ i' = 0
    /\ pc' = "Pass2"
    /\ UNCHANGED <<cfgVars, exc, delExc, cap, out, prev, transforms, trajectory,
                   smoothed_trajectory, written, feature_detection_times,
                   histVars, maVars>>

\* One iteration of the second loop, for i in range(n_frames - 2).
Pass2Iter ==
    /\ pc = "Pass2"
    /\ i < n_frames - 2
    /\ \/ \* success, frame = self.cap.read(); if not success: break
          /\ pos >= avail
          /\ failed2' = TRUE
          /\ pc' = "Returned"
          /\ UNCHANGED <<exc, pos, i, written, reads, reads2>>
       \/ \* cv2.resize(frame_out, (shape[1] / 2, shape[0] / 2)): a float size
          /\ pos < avail
          /\ 2 * w > MaxDisplayWidth
          /\ \E e \in {"TypeError", "cv2.error"} : Raise(e)
          /\ pos' = pos + 1
          /\ reads' = reads + 1
          /\ reads2' = reads2 + 1
          /\ UNCHANGED <<i, written, failed2>>
       \/ \* self.out.write(frame_out)
          /\ pos < avail
          /\ 2 * w <= MaxDisplayWidth
          /\ written' = Append(written,
                [frame |-> pos, row |-> i, motion |-> transforms_smooth[i + 1]])
          /\ pos' = pos + 1
          /\ reads' = reads + 1
          /\ reads2' = reads2 + 1
          /\ i' = i + 1
          /\ UNCHANGED <<pc, exc, failed2>>
    /\ UNCHANGED <<cfgVars, delExc, cap, out, prev, transforms, trajectory,
                   smoothed_trajectory, transforms_smooth,
                   feature_detection_times, filled, pairs, degenerate, failed1,
                   maVars>>

\* range(n_frames - 2) is exhausted: stabilise returns.
Pass2End ==
    /\ pc = "Pass2"
    /\ i >= n_frames - 2
    /\ pc' = "Returned"
    /\ UNCHANGED <<cfgVars, exc, delExc, cap, out, pos, i, prev, transforms,
                   trajectory, smoothed_trajectory, transforms_smooth, written,
                   feature_detection_times, histVars, maVars>>

----------------------------------------------------------------------------
(* Stabiliser.__del__: runs once stabilise has returned or raised.  mean()  *)
(* of an empty list raises StatisticsError, which ends the finaliser before *)
(* the release calls.                                                      *)

Del ==
    /\ pc \in {"Returned", "Raised"}
    /\ \/ /\ feature_detection_times = 0
          /\ delExc' = "StatisticsError"
          /\ UNCHANGED <<cap, out>>
       \/ /\ feature_detection_times > 0
          /\ cap' = "released"
          /\ out' = "released"
          /\ delExc' = delExc
    /\ pc' = "Finalized"
    /\ UNCHANGED <<cfgVars, exc, pos, i, prev, transforms, trajectory,
                   smoothed_trajectory, transforms_smooth, written,
                   feature_detection_times, histVars, maVars>>

Next ==
    \/ OpenCapture
    \/ OpenWriter
    \/ ReadFirst
    \/ Allocate
    \/ Pass1Iter
    \/ Pass1End
    \/ Accumulate
    \/ Smooth
    \/ Correct
    \/ Pass2Iter
    \/ Pass2End
    \/ Del

Spec == Init /\ [][Next]_vars

----------------------------------------------------------------------------
(* moving_average as a function of its arguments: a call with any channel   *)
(* of bounded length and any radius.                                       *)

RECURSIVE SeqsUpTo(_, _)
SeqsUpTo(S, n) ==
    IF n = 0 THEN {<<>>}
    ELSE LET shorter == SeqsUpTo(S, n - 1)
         IN  shorter \cup {Append(s, x) : s \in shorter, x \in S}

InitMA ==
    /\ curve \in SeqsUpTo(0..MaxVal, MaxLen)
    /\ ma_radius \in 0..MaxRadius
    /\ ma_out = <<>>
    /\ ma_pc = "idle"
    /\ mode = "optical_flow"
    /\ features = "good_features"
    /\ radius = ma_radius
    /\ n_frames = 0
    /\ avail = 0
    /\ w = 0
    /\ pc = "Constructed"
    /\ exc = "none"
    /\ delExc = "none"
    /\ cap = "none"
    /\ out = "none"
    /\ pos = 0
    /\ i = 0
    /\ prev = -1
    /\ transforms = <<>>
    /\ trajectory = <<>>
    /\ smoothed_trajectory = <<>>
    /\ transforms_smooth = <<>>
    /\ written = <<>>
    /\ feature_detection_times = 0
    /\ reads = 0
    /\ reads2 = 0
    /\ filled = {}
    /\ pairs = <<>>
    /\ degenerate = {}
    /\ failed1 = FALSE
    /\ failed2 = FALSE

CallMovingAverage ==
    /\ ma_pc = "idle"
    /\ \/ /\ moving_average_raises(curve, ma_radius)
          /\ ma_pc' = "raised"
          /\ ma_out' = ma_out
       \/ /\ ~moving_average_raises(curve, ma_radius)
          /\ ma_out' = moving_average(curve, ma_radius)
          /\ ma_pc' = "returned"
    /\ UNCHANGED <<cfgVars, runVars, histVars, curve, ma_radius>>

NextMA == CallMovingAverage

SpecMA == InitMA /\ [][NextMA]_vars

----------------------------------------------------------------------------
(* Properties. *)

\* stabilise has returned (it did not raise), whether or not __del__ has run.
Completed == pc \in {"Returned", "Finalized"} /\ exc = "none"

\* Frames a run writes when no read fails: the bound of the second loop.
FullRunFrames == n_frames - 2

\* C1: a complete run over an n-frame video (n >= 2) in which no read fails
\* writes exactly n-1 frames to the sink.
C1_WritesAllButOneFrame ==
    (Completed /\ n_frames >= 2 /\ avail >= n_frames /\ ~failed1 /\ ~failed2)
        => Len(written) = n_frames - 1

\* C2: on every exit path of a run (return or exception, feature detection
\* recorded or not) the source and the sink that were acquired are released
\* once the run is over.
C2_ReleasedOnEveryExit ==
    pc = "Finalized" => (cap # "open" /\ out # "open")

\* C3: a frame pair with fewer than 3 valid correspondences, for which the
\* rigid-transform solver returns no matrix, gets the identity estimate
\* (0, 0, 0) stored in its row, and the run does not fail.
C3_DegenerateStoresIdentity ==
    (mode = "optical_flow" /\ degenerate # {})
        => /\ exc = "none"
           /\ \A r \in degenerate : r \in filled /\ transforms[r + 1] = Zero3

\* C4: with features = surf the run fails before any frame processing: in no
\* state of such a run has the sink been opened, a frame been read or a
\* motion estimate been computed, whatever the mode.
C4_SurfFailsBeforeProcessing ==
    features = "surf" => (out = "none" /\ reads = 0 /\ pairs = <<>>)

IsConstant(c) == \A k \in 1..Len(c) : c[k] = c[1]

\* C5: for a constant channel c of length >= 1 and any radius >= 0 (0
\* included) moving_average returns c: same length, same values.
C5_ConstantIsFixed ==
    (ma_pc # "idle" /\ Len(curve) >= 1 /\ IsConstant(curve))
        => /\ ma_pc = "returned"
           /\ Len(ma_out) = Len(curve)
           /\ \A k \in 1..Len(curve) :
                 ma_out[k] = window_size(ma_radius) * curve[k]

\* C6: once a read has failed in pass 1 or pass 2 the run raises nothing and
\* goes on to completion, and the frames it has written at the end are as
\* many as pass 2 read and fewer than a run without a failed read writes.
C6_EarlyEndShortensOutput ==
    (failed1 \/ failed2)
        => /\ exc = "none"
           /\ Completed => /\ Len(written) = reads2
                           /\ Len(written) < FullRunFrames

\* C7: after a pass 1 without a failed read over an n-frame video, every one
\* of the n-1 rows 0..n-2 of the transform store was assigned an estimate.
C7_EveryRowEstimated ==
    (pc = "Accumulate" /\ n_frames >= 2 /\ avail >= n_frames /\ ~failed1)
        => filled = 0..(n_frames - 2)

AfterAccumulate == pc \in {"Smooth", "Correct", "Pass2", "Returned"}

\* C8: after pass 1 the trajectory is as long as the estimate sequence and
\* trajectory[i] = trajectory[i-1] + e[i] component-wise, trajectory[-1]
\* being (0, 0, 0).
C8_TrajectoryIsPrefixSum ==
    AfterAccumulate
        => /\ Len(trajectory) = Len(transforms)
           /\ \A r \in 1..Len(trajectory) :
                 trajectory[r] =
                    VAdd(IF r = 1 THEN Zero3 ELSE trajectory[r - 1],
                         transforms[r])

C8_Witness ==
    /\ pc = "Smooth"
    /\ Len(transforms) >= 3
    /\ transforms[1] # Zero3
    /\ transforms[2] # Zero3
    /\ transforms[1] # transforms[2]

\* The corrected motion of row r (0-based), over window_size:
\* rawEstimate[r] + (SmoothedTrajectory[r] - Trajectory[r]).
CorrectedMotion(r) ==
    VAdd(VScale(window_size(radius), transforms[r + 1]),
         VSub(smoothed_trajectory[r + 1],
              VScale(window_size(radius), trajectory[r + 1])))

\* C9 as claimed: every frame written is the source frame with index i+1
\* transformed by the corrected motion with index i.
C9_AppliedToNextFrame ==
    \A k \in 1..Len(written) :
        /\ written[k].frame = written[k].row + 1
        /\ written[k].motion = CorrectedMotion(written[k].row)

\* C9 as amended: every frame written is the source frame with index i
\* transformed by the corrected motion with the same index i.
C9_AppliedToSameFrame ==
    \A k \in 1..Len(written) :
        /\ written[k].frame = written[k].row
        /\ written[k].motion = CorrectedMotion(written[k].row)

C9_Witness ==
    /\ Len(written) >= 2
    /\ transforms[1] # Zero3
    /\ transforms[2] # Zero3
    /\ written[2].motion # written[1].motion

\* Sum of the 2r+1 values c[clamp(j)] for j in k-r..k+r (1-based k).
ClampedWindowSum(c, k, r) ==
    SumSeq([d \in 1..(2 * r + 1) |-> c[Max(1, Min(Len(c), k - r + d - 1))]])

\* C10: for a channel of length L >= 1 and a radius r >= 1 moving_average
\* returns L entries, entry i being the uniform average of the 2r+1 values
\* channel[clamp(j, 0, L-1)], j in i-r..i+r (as a numerator over 2r+1: their
\* sum).
C10_EdgeReplicatedAverage ==
    (ma_pc # "idle" /\ Len(curve) >= 1 /\ ma_radius >= 1)
        => /\ ma_pc = "returned"
           /\ Len(ma_out) = Len(curve)
           /\ \A k \in 1..Len(curve) :
                 ma_out[k] = ClampedWindowSum(curve, k, ma_radius)

C10_Witness ==
    /\ ma_pc = "returned"
    /\ ma_radius = 2
    /\ curve = <<0, 2, 1>>
    /\ ma_out = <<3, 4, 5>>

====
